---- MODULE Spec2Model ----
(***************************************************************************)
(* Model of the Obsidian "Vercel publisher" plugin: the publish modal, the *)
(* published-page registry kept in the plugin settings, the manifest       *)
(* (VercelFile[]) built by publishPageToVercel / unpublishFromVercel and   *)
(* the deploy request handed to the Vercel API.                            *)
(*                                                                         *)
(* Text is modelled by TLA+ strings; a character is a string of length 1.  *)
(***************************************************************************)
EXTENDS Integers, Sequences, FiniteSets, TLC

(***************************************************************************)
(* Bounds of the model (not program constants).                            *)
(***************************************************************************)
\* Number of publish / unpublish calls a behaviour starts.
MaxOps == 4

(***************************************************************************)
(* Characters and String.prototype helpers.                                *)
(***************************************************************************)
UpperAZ == "ABCDEFGHIJKLMNOPQRSTUVWXYZ"

LowerAZ == "abcdefghijklmnopqrstuvwxyz"

Digits == "0123456789"

CharsOf(s) == { SubSeq(s, i, i) : i \in 1..Len(s) }

\* The character class [a-z0-9] of generateSlug's first replace.
AlnumChars == CharsOf(LowerAZ) \cup CharsOf(Digits)

\* String.prototype.toLowerCase on one character (ASCII letters; the other
\* characters of the model have no lower-case form of their own).
LowerChar(c) ==
    IF c \in CharsOf(UpperAZ)
    THEN LET i == CHOOSE k \in 1..Len(UpperAZ) : SubSeq(UpperAZ, k, k) = c
         IN  SubSeq(LowerAZ, i, i)
    ELSE c

RECURSIVE toLowerCase(_)
toLowerCase(s) ==
    IF s = "" THEN "" ELSE LowerChar(Head(s)) \o toLowerCase(Tail(s))

\* s without its longest prefix of characters outside [a-z0-9].
RECURSIVE DropNonAlnum(_)
DropNonAlnum(s) ==
    IF s = "" \/ Head(s) \in AlnumChars THEN s ELSE DropNonAlnum(Tail(s))

\* .replace(/[^a-z0-9]+/g, "-"): every maximal run of characters outside
\* [a-z0-9] becomes one hyphen.
RECURSIVE ReplaceNonAlnumRuns(_)
ReplaceNonAlnumRuns(s) ==
    IF s = "" THEN ""
    ELSE IF Head(s) \in AlnumChars
         THEN Head(s) \o ReplaceNonAlnumRuns(Tail(s))
         ELSE "-" \o ReplaceNonAlnumRuns(DropNonAlnum(s))

\* Variant of TrimBoundaryHyphens for a pattern without the g flag: only the
\* first match is removed (sensitivity check of the normalization).
TrimFirstBoundaryHyphen(s) ==
    IF s # "" /\ Head(s) = "-" THEN Tail(s)
    ELSE IF s # "" /\ SubSeq(s, Len(s), Len(s)) = "-"
         THEN SubSeq(s, 1, Len(s) - 1)
         ELSE s

\* .replace(/^-|-$/g, ""): one hyphen at the start and one hyphen at the
\* end (a different character from the first match) are removed.
TrimBoundaryHyphens(s) ==
    LET t == IF s # "" /\ Head(s) = "-" THEN Tail(s) ELSE s
    IN  IF t # "" /\ SubSeq(t, Len(t), Len(t)) = "-"
        THEN SubSeq(t, 1, Len(t) - 1)
        ELSE t

generateSlug(title) ==
    TrimBoundaryHyphens(ReplaceNonAlnumRuns(toLowerCase(title)))

StartsWith(s, p) == Len(p) <= Len(s) /\ SubSeq(s, 1, Len(p)) = p

EndsWith(s, p) ==
    Len(p) <= Len(s) /\ SubSeq(s, Len(s) - Len(p) + 1, Len(s)) = p

\* String.prototype.lastIndexOf for one character, 1-based; 0 when absent.
LastIndexOf(s, c) ==
    LET hits == { i \in 1..Len(s) : SubSeq(s, i, i) = c }
    IN  IF hits = {} THEN 0 ELSE CHOOSE i \in hits : \A j \in hits : j <= i

(***************************************************************************)
(* The vault: the files the plugin can see.  A file is identified by its   *)
(* path; name, basename and extension are those of Obsidian's TFile.       *)
(***************************************************************************)
\* The value of a lookup that finds no file (null / undefined).
NoFile == "<no file>"

\* vault.getFiles(), in the order the vault lists them.
VaultFiles == << "A.md", "B.md", "D.md", "E.md", "sub/B.md", "pic.png" >>

AllFiles == { VaultFiles[i] : i \in 1..Len(VaultFiles) }

\* TFile.name: the last segment of the path.
FileName(p) == SubSeq(p, LastIndexOf(p, "/") + 1, Len(p))

\* TFile.extension: what follows the last dot of the name.
Extension(p) ==
    LET n == FileName(p)
        k == LastIndexOf(n, ".")
    IN  IF k = 0 THEN "" ELSE SubSeq(n, k + 1, Len(n))

\* TFile.basename: the name without its extension.
Basename(p) ==
    LET n == FileName(p)
        k == LastIndexOf(n, ".")
    IN  IF k = 0 THEN n ELSE SubSeq(n, 1, k - 1)

\* A reference found in a note's text:
\*   kind "wikilink":  [[target]] or [[target|alias]]
\*   kind "embed":     ![[target]] or ![[target|alias]]
\*   kind "image":     ![alias](target)
Ref(kind, target, alias) == [kind |-> kind, target |-> target, alias |-> alias]

\* vault.read(file): the references of each note, in text order.
\*   A.md      [[B]] ![[pic.png]]
\*   B.md      [[E]]
\*   D.md      [[sub/B]] [[B]] ![ext](https://example.com/p.png)
\*   E.md      (no reference)
\*   sub/B.md  ![[E]]
Content(p) ==
    CASE p = "A.md" -> << Ref("wikilink", "B", ""), Ref("embed", "pic.png", "") >>
      [] p = "B.md" -> << Ref("wikilink", "E", "") >>
      [] p = "D.md" -> << Ref("wikilink", "sub/B", ""),
                          Ref("wikilink", "B", ""),
                          Ref("image", "https://example.com/p.png", "ext") >>
      [] p = "sub/B.md" -> << Ref("embed", "E", "") >>
      [] OTHER -> << >>

\* The first file of the vault listing that is in `hits`; NoFile when there
\* is none (the result of Array.prototype.find, or null).
FirstFile(hits) ==
    LET idx == { i \in 1..Len(VaultFiles) : VaultFiles[i] \in hits }
    IN  IF idx = {} THEN NoFile
        ELSE VaultFiles[CHOOSE i \in idx : \A j \in idx : i <= j]

\* metadataCache.getFirstLinkpathDest(linkpath, sourcePath): the file a
\* link text designates: the file at that path (with ".md" when the text
\* names no extension), else the first file with that name.
getFirstLinkpathDest(files, linkpath) ==
    LET byPath == { f \in files : f = linkpath \/ f = linkpath \o ".md" }
        byName == { f \in files : FileName(f) = linkpath
                                   \/ FileName(f) = linkpath \o ".md" }
    IN  IF byPath # {} THEN FirstFile(byPath) ELSE FirstFile(byName)

(***************************************************************************)
(* Graph walker: findLinkedPages and findAssets.  `files` is the set of    *)
(* files in the vault when the walk runs.                                  *)
(***************************************************************************)
\* Array.prototype.includes
Includes(seq, x) == \E i \in 1..Len(seq) : seq[i] = x

\* What wikiLinkRegex captures in a reference: the text between "[[" and
\* the first "|" or "]]".  The regex also matches inside "![[...]]".
WikiLinkMatch(ref) == ref.target

\* What embedRegex captures: everything between "![[" and "]]".
EmbedMatch(ref) ==
    IF ref.alias = "" THEN ref.target ELSE ref.target \o "|" \o ref.alias

\* The while loop of findLinkedPages over the matches from the i-th
\* reference on; linkedFiles is the array built so far.
RECURSIVE LinkedPagesLoop(_, _, _, _)
LinkedPagesLoop(files, refs, i, linkedFiles) ==
    IF i > Len(refs) THEN linkedFiles
    ELSE IF refs[i].kind \notin {"wikilink", "embed"}
         THEN LinkedPagesLoop(files, refs, i + 1, linkedFiles)
         ELSE LET linkedFile == getFirstLinkpathDest(files, WikiLinkMatch(refs[i]))
              IN  IF /\ linkedFile # NoFile
                     /\ Extension(linkedFile) = "md"
                     /\ ~Includes(linkedFiles, linkedFile)
                  THEN LinkedPagesLoop(files, refs, i + 1,
                                       Append(linkedFiles, linkedFile))
                  ELSE LinkedPagesLoop(files, refs, i + 1, linkedFiles)

\* Variant of findLinkedPages that also follows the links of the linked
\* notes (sensitivity check of the one-hop limit).
findLinkedPagesTransitive(files, file) ==
    LET first == LinkedPagesLoop(files, Content(file), 1, << >>)
        Second[k \in 0..Len(first)] ==
            IF k = 0 THEN first
            ELSE LinkedPagesLoop(files, Content(first[k]), 1, Second[k - 1])
    IN  Second[Len(first)]

findLinkedPages(files, file) == LinkedPagesLoop(files, Content(file), 1, << >>)

\* First loop of findAssets: markdown images ![alt](path).
RECURSIVE ImageLoop(_, _, _, _)
ImageLoop(files, refs, i, assets) ==
    IF i > Len(refs) THEN assets
    ELSE IF refs[i].kind # "image" \/ StartsWith(refs[i].target, "http")
         THEN ImageLoop(files, refs, i + 1, assets)
         ELSE LET assetFile == getFirstLinkpathDest(files, refs[i].target)
              IN  IF assetFile # NoFile /\ ~Includes(assets, assetFile)
                  THEN ImageLoop(files, refs, i + 1, Append(assets, assetFile))
                  ELSE ImageLoop(files, refs, i + 1, assets)

\* Second loop of findAssets: wiki-style embeds ![[file]], with the search
\* of all the vault's files when the link does not resolve.
RECURSIVE EmbedLoop(_, _, _, _)
EmbedLoop(files, refs, i, assets) ==
    IF i > Len(refs) THEN assets
    ELSE IF refs[i].kind # "embed"
         THEN EmbedLoop(files, refs, i + 1, assets)
         ELSE LET assetPath == EmbedMatch(refs[i])
                  assetFile == getFirstLinkpathDest(files, assetPath)
                  foundFile == FirstFile({ f \in files :
                                   FileName(f) = assetPath \/ EndsWith(f, assetPath) })
              IN  IF assetFile # NoFile
                  THEN IF ~Includes(assets, assetFile)
                       THEN EmbedLoop(files, refs, i + 1, Append(assets, assetFile))
                       ELSE EmbedLoop(files, refs, i + 1, assets)
                  ELSE IF foundFile # NoFile
                       THEN EmbedLoop(files, refs, i + 1, Append(assets, foundFile))
                       ELSE EmbedLoop(files, refs, i + 1, assets)

findAssets(files, file) ==
    EmbedLoop(files, Content(file), 1, ImageLoop(files, Content(file), 1, << >>))

(***************************************************************************)
(* Manifest builder: the body of the loop over settings.publishedPages.    *)
(***************************************************************************)
\* The entry every manifest of publish / unpublish starts with.
VercelJson ==
    [file |-> "vercel.json",
     data |-> [kind |-> "config", cleanUrls |-> TRUE, trailingSlash |-> FALSE],
     encoding |-> "utf-8"]

\* templateGen.generateHTML(page) of a PageData whose content is
\* markdownToHtml(read(doc), doc, parentSlug): the page rendered from doc.
HtmlOf(page) ==
    [kind |-> "html", doc |-> page.doc, title |-> page.title,
     parentSlug |-> page.parentSlug]

\* arrayBufferToBase64(readBinary(asset))
Base64Of(asset) == [kind |-> "base64", asset |-> asset]

\* pagesForThisSlug: one PageData per file of allFilesForThisPage.
PagesForThisSlug(file, pageSlug, allFilesForThisPage) ==
    [ i \in 1..Len(allFilesForThisPage) |->
        LET pageFile == allFilesForThisPage[i]
        IN  [title |-> Basename(pageFile),
             doc |-> pageFile,
             parentSlug |-> pageSlug,
             slug |-> IF pageFile = file THEN pageSlug
                      ELSE generateSlug(Basename(pageFile))] ]

\* assetsForThisSlug: the assets of every file of allFilesForThisPage,
\* each asset once.
RECURSIVE AssetsForThisSlug(_, _, _, _)
AssetsForThisSlug(files, allFilesForThisPage, i, acc) ==
    IF i > Len(allFilesForThisPage) THEN acc
    ELSE LET assets == findAssets(files, allFilesForThisPage[i])
             Pushed[k \in 0..Len(assets)] ==
                 IF k = 0 THEN acc
                 ELSE IF Includes(Pushed[k - 1], assets[k]) THEN Pushed[k - 1]
                      ELSE Append(Pushed[k - 1], assets[k])
         IN  AssetsForThisSlug(files, allFilesForThisPage, i + 1,
                               Pushed[Len(assets)])

\* "Add main page": pagesForThisSlug.find(p => p.slug === pageSlug).
MainPageFiles(pages, pageSlug) ==
    LET hits == { i \in 1..Len(pages) : pages[i].slug = pageSlug }
    IN  IF hits = {} THEN << >>
        ELSE LET first == CHOOSE i \in hits : \A j \in hits : i <= j
             IN  << [file |-> pageSlug \o "/index.html",
                     data |-> HtmlOf(pages[first]),
                     encoding |-> "utf-8"] >>

\* "Add linked pages": every page whose slug differs from pageSlug.
LinkedPageFiles(pages, pageSlug) ==
    LET linked == SelectSeq(pages, LAMBDA p : p.slug # pageSlug)
    IN  [ i \in 1..Len(linked) |->
            [file |-> pageSlug \o "/" \o linked[i].slug \o ".html",
             data |-> HtmlOf(linked[i]),
             encoding |-> "utf-8"] ]

\* "Add assets under this slug folder".
AssetFiles(assets, pageSlug) ==
    [ i \in 1..Len(assets) |->
        [file |-> pageSlug \o "/" \o FileName(assets[i]),
         data |-> Base64Of(assets[i]),
         encoding |-> "base64"] ]

\* Variant of PageFiles without the test for a file deleted from the vault
\* (sensitivity check of the skip of such pages).
PageFilesNoSkip(files, publishedPage) ==
    LET file == publishedPage.filePath
        pageSlug == publishedPage.slug
        allFilesForThisPage == << file >> \o findLinkedPages(files, file)
        pages == PagesForThisSlug(file, pageSlug, allFilesForThisPage)
        assets == AssetsForThisSlug(files, allFilesForThisPage, 1, << >>)
    IN  MainPageFiles(pages, pageSlug)
        \o LinkedPageFiles(pages, pageSlug)
        \o AssetFiles(assets, pageSlug)

\* One iteration of "Process each published page": the entries it pushes to
\* vercelFiles; none when the page's file is no longer in the vault.
PageFiles(files, publishedPage) ==
    LET file == publishedPage.filePath
        pageSlug == publishedPage.slug
        allFilesForThisPage == << file >> \o findLinkedPages(files, file)
        pages == PagesForThisSlug(file, pageSlug, allFilesForThisPage)
        assets == AssetsForThisSlug(files, allFilesForThisPage, 1, << >>)
    IN  IF file \notin files THEN << >>
        ELSE MainPageFiles(pages, pageSlug)
             \o LinkedPageFiles(pages, pageSlug)
             \o AssetFiles(assets, pageSlug)

(***************************************************************************)
(* Inputs of the model.                                                    *)
(***************************************************************************)
\* The notes the user opens the publish modal on.
Roots == { "A.md", "D.md" }

\* The files the user deletes from the vault.
Deletable == { "D.md" }

\* The texts the user types into the modal's slug field.
SlugTexts == { "b", "My B" }

\* The values the settings tab gives the API token and the project name.
TokenValues == { "", "tok" }

ProjectValues == { "", "proj" }

\* window.crypto.subtle.digest("SHA-256", path), as lower-case hex: the
\* first 8 characters, for the paths of the vault.
Sha256Hex8(text) ==
    CASE text = "A.md" -> "2d63174e"
      [] text = "B.md" -> "b5038c9f"
      [] text = "D.md" -> "11665abc"
      [] text = "E.md" -> "92489856"
      [] text = "sub/B.md" -> "36de5001"
      [] text = "pic.png" -> "35a49ddc"

\* PublishModal.generateHashSlug
generateHashSlug(text) == Sha256Hex8(text)

(***************************************************************************)
(* State.                                                                  *)
(***************************************************************************)
VARIABLES
    settings,     \* plugin.settings: vercelApiToken, vercelProjectName, publishedPages
    savedData,    \* what saveData last wrote (the durable copy of settings)
    vault,        \* the files now in the vault
    modal,        \* the PublishModal: open, file, slug, isPublished
    tasks,        \* the running (or last) publish / unpublish call of each slot
    deployments,  \* number of deployments the host has created
    opsStarted,   \* number of publish / unpublish calls started
    removedSlug,  \* history: the slug a note had when it was unpublished
    publishKind,  \* history: how a registered note's last publish got its slug
    waiter,       \* a caller's VercelApi.waitForDeployment call
    deleted,      \* the deployments a DELETE request deleted on the host
    pruner,       \* a caller's VercelApi.deleteUnusedDeployments call
    domains,      \* the modal's getProjectDomains call and its result
    slugs         \* a text and what generateSlug makes of it

vars == << settings, savedData, vault, modal, tasks, deployments, opsStarted,
           removedSlug, publishKind, waiter, deleted, pruner, domains, slugs >>

\* The async call slots; the single-flow specification uses the first.
Slots == { "t1", "t2" }

\* PublishedPage.deploymentId when it is undefined.
NoDeployment == 0

\* A slug that is not there.
NoSlug == "<no slug>"

\* DEFAULT_SETTINGS
DEFAULT_SETTINGS ==
    [vercelApiToken |-> "", vercelProjectName |-> "", publishedPages |-> << >>]

ClosedModal ==
    [open |-> FALSE, file |-> NoFile, slug |-> "", isPublished |-> FALSE,
     edited |-> FALSE]

IdleTask ==
    [pc |-> "idle", kind |-> "none", file |-> NoFile, customSlug |-> "",
     mainSlug |-> "",
     idx |-> 0, vercelFiles |-> << >>, requested |-> FALSE,
     deployment |-> NoDeployment, outcome |-> "none",
     edited |-> FALSE, prevSlug |-> NoSlug, prevKind |-> "none",
     pagesBefore |-> << >>,
     detached |-> FALSE, loopPages |-> << >>,
     overlapped |-> FALSE, removedInLoop |-> {}]

\* No waitForDeployment call was made.
IdleWaiter ==
    [pc |-> "idle", maxWaitTime |-> 0, elapsed |-> 0, requests |-> 0,
     status |-> "none", result |-> "none"]

\* No deleteUnusedDeployments call was made.
IdlePruner ==
    [pc |-> "idle", activeDeploymentIds |-> {}, listed |-> {}, listFailed |-> FALSE,
     requested |-> {}, pending |-> {}, failed |-> {}, result |-> "none"]

\* No getProjectDomains call was made.
NoResponse == [status |-> "none", hasDomains |-> FALSE, domains |-> << >>]

NoDomains == [pc |-> "idle", projectName |-> "", response |-> NoResponse, result |-> << >>]

\* No text was given to generateSlug.
NoSlugs == [pc |-> "idle", text |-> "", once |-> "", twice |-> ""]

\* loadData() of a plugin whose settings tab was filled in by an earlier
\* session and that has published nothing yet.
ConfiguredData ==
    [DEFAULT_SETTINGS EXCEPT !.vercelApiToken = "tok", !.vercelProjectName = "proj"]

\* onload: loadSettings() assigns DEFAULT_SETTINGS overlaid with loadData().
Init ==
    /\ settings = ConfiguredData
    /\ savedData = ConfiguredData
    /\ vault = AllFiles
    /\ modal = ClosedModal
    /\ tasks = [s \in Slots |-> IdleTask]
    /\ deployments = 0
    /\ opsStarted = 0
    /\ removedSlug = [f \in Roots |-> NoSlug]
    /\ publishKind = [f \in Roots |-> "none"]
    /\ waiter = IdleWaiter
    /\ deleted = {}
    /\ pruner = IdlePruner
    /\ domains = NoDomains
    /\ slugs = NoSlugs

(***************************************************************************)
(* Registry helpers.                                                       *)
(***************************************************************************)
\* publishedPages.findIndex(p => p.filePath === path), 1-based; 0 for -1.
FindIndex(pages, path) ==
    LET hits == { i \in 1..Len(pages) : pages[i].filePath = path }
    IN  IF hits = {} THEN 0 ELSE CHOOSE i \in hits : \A j \in hits : i <= j

IsRegistered(pages, path) == FindIndex(pages, path) # 0

\* The slug recorded for path; NoSlug when path has no entry.
SlugOf(pages, path) ==
    IF IsRegistered(pages, path) THEN pages[FindIndex(pages, path)].slug
    ELSE NoSlug

AllIdle == \A s \in Slots : tasks[s].pc = "idle"

(***************************************************************************)
(* The publish modal.                                                      *)
(***************************************************************************)
\* Variant of ModalInitialSlug that forgets the recorded slug and always
\* derives the hash (sensitivity check of the slug-reuse properties).
ModalAlwaysHash(pages, file) == generateHashSlug(file)

\* PublishModal's constructor and the start of onOpen: the slug the modal
\* shows is the one recorded for the file, else the hash of the file path.
ModalInitialSlug(pages, file) ==
    LET existing == SlugOf(pages, file)
    IN  IF existing # NoSlug /\ existing # "" THEN existing
        ELSE generateHashSlug(file)

\* new PublishModal(...).open() on a note (file menu, ribbon icon or
\* command); nothing in the plugin tests whether a call is running.
ShowModal(f) ==
    /\ ~modal.open
    /\ opsStarted < MaxOps
    /\ f \in vault
    /\ modal' = [open |-> TRUE, file |-> f,
                 slug |-> ModalInitialSlug(settings.publishedPages, f),
                 isPublished |-> IsRegistered(settings.publishedPages, f),
                 edited |-> FALSE]
    /\ UNCHANGED << settings, savedData, vault, tasks, deployments, opsStarted,
                    removedSlug, publishKind, waiter, deleted, pruner,
                    domains, slugs >>

\* The user opens the modal while no call is running.
OpenModal(f) == AllIdle /\ ShowModal(f)

\* slugInput's "input" listener: this.slug = slugInput.value.
SlugInput(text) ==
    /\ modal.open
    /\ modal' = [modal EXCEPT !.slug = text, !.edited = TRUE]
    /\ UNCHANGED << settings, savedData, vault, tasks, deployments, opsStarted,
                    removedSlug, publishKind, waiter, deleted, pruner,
                    domains, slugs >>

\* Modal.close() without a click on either button.
CloseModal ==
    /\ modal.open
    /\ modal' = ClosedModal
    /\ UNCHANGED << settings, savedData, vault, tasks, deployments, opsStarted,
                    removedSlug, publishKind, waiter, deleted, pruner,
                    domains, slugs >>

(***************************************************************************)
(* publishPageToVercel / unpublishFromVercel, up to their first await.     *)
(***************************************************************************)
\* Variant of MainSlug that ignores the slug it is given and always derives
\* one from the base name (sensitivity check of the slug properties).
MainSlugFromBasename(mainFile, customSlug) == generateSlug(Basename(mainFile))

\* const mainSlug = customSlug || this.generateSlug(mainFile.basename)
MainSlug(mainFile, customSlug) ==
    IF customSlug # "" THEN customSlug ELSE generateSlug(Basename(mainFile))

\* Variant of Upsert whose update branch derives the slug again from the
\* base name instead of storing mainSlug (sensitivity check of slug stability).
UpsertRederives(pages, path, mainSlug) ==
    LET existingIndex == FindIndex(pages, path)
    IN  IF existingIndex > 0
        THEN [pages EXCEPT ![existingIndex].slug = generateSlug(Basename(path))]
        ELSE Append(pages, [filePath |-> path, slug |-> mainSlug,
                            deploymentId |-> NoDeployment])

\* Variant of Upsert without the findIndex test: it always pushes a new
\* entry (sensitivity check of the one-entry-per-path invariant).
UpsertAlwaysPush(pages, path, mainSlug) ==
    Append(pages, [filePath |-> path, slug |-> mainSlug,
                   deploymentId |-> NoDeployment])

\* "Update or add ONLY the main file to publishedPages".
Upsert(pages, path, mainSlug) ==
    LET existingIndex == FindIndex(pages, path)
    IN  IF existingIndex > 0
        THEN [pages EXCEPT ![existingIndex].slug = mainSlug]
        ELSE Append(pages, [filePath |-> path, slug |-> mainSlug,
                            deploymentId |-> NoDeployment])

\* Variant of RemovePage with the filter's test inverted: it keeps the page
\* it should remove (sensitivity check of the unpublish properties).
RemovePageInverted(pages, path) == SelectSeq(pages, LAMBDA p : p.filePath = path)

\* publishedPages.filter(p => p.filePath !== file.path)
RemovePage(pages, path) == SelectSeq(pages, LAMBDA p : p.filePath # path)

\* Variant of Stamp that marks only the entry pushed last (sensitivity check
\* of the deployment id fan-out).
StampLastOnly(pages, id) ==
    [ i \in 1..Len(pages) |->
        IF i = Len(pages) THEN [pages[i] EXCEPT !.deploymentId = id] ELSE pages[i] ]

\* "Update ALL published pages to reference the new deployment".
Stamp(pages, id) == [ i \in 1..Len(pages) |-> [pages[i] EXCEPT !.deploymentId = id] ]

\* Variant of Configured that tests the API token only (sensitivity check of
\* the configuration errors).
ConfiguredTokenOnly == settings.vercelApiToken # ""

\* The settings checks every call starts with.
Configured == settings.vercelApiToken # "" /\ settings.vercelProjectName # ""

\* The slot a new call runs in.
StartSlot == "t1"

\* The slot a call runs in when another call may be suspended: the first
\* one that is idle.
FreeSlot == IF tasks["t1"].pc = "idle" THEN "t1" ELSE "t2"

\* The other calls that are suspended in their loop or at their deploy
\* request when the call of slot s starts.
SuspendedPublishes(s) ==
    { t \in Slots \ {s} : tasks[t].kind = "publish" /\ tasks[t].pc \in {"loop", "deploy"} }

\* The publish button: a slug is required; onSubmit(this.slug) calls
\* publishPageToVercel(file, slug), which runs to its first await.  The
\* call runs in slot s.
PublishCall(s) ==
    /\ modal.open
    /\ tasks[s].pc = "idle"
    /\ opsStarted < MaxOps
    /\ IF modal.slug = ""
       THEN UNCHANGED vars
       ELSE LET mainFile == modal.file
                mainSlug == MainSlug(mainFile, modal.slug)
                pages == settings.publishedPages
                call == [IdleTask EXCEPT !.kind = "publish", !.file = mainFile,
                                         !.customSlug = modal.slug,
                                         !.mainSlug = mainSlug,
                                         !.edited = modal.edited,
                                         !.prevSlug = SlugOf(pages, mainFile),
                                         !.prevKind = publishKind[mainFile],
                                         !.pagesBefore = pages,
                                         !.overlapped = SuspendedPublishes(s) # {}]
            IN  /\ modal' = ClosedModal
                /\ opsStarted' = opsStarted + 1
                /\ IF ~Configured
                   THEN /\ tasks' = [tasks EXCEPT ![s] =
                                        [call EXCEPT !.outcome = "config"]]
                        /\ UNCHANGED << settings, removedSlug, publishKind >>
                   ELSE /\ settings' = [settings EXCEPT !.publishedPages =
                                            Upsert(pages, mainFile, mainSlug)]
                        /\ tasks' = [ t \in Slots |->
                                        IF t = s
                                        THEN [call EXCEPT !.pc = "loop", !.idx = 1,
                                                          !.outcome = "running",
                                                          !.vercelFiles = << VercelJson >>]
                                        ELSE IF t \in SuspendedPublishes(s)
                                        THEN [tasks[t] EXCEPT !.overlapped = TRUE]
                                        ELSE tasks[t] ]
                        /\ removedSlug' = [removedSlug EXCEPT ![mainFile] = NoSlug]
                        /\ publishKind' = [publishKind EXCEPT ![mainFile] =
                                              IF modal.edited THEN "custom" ELSE "default"]
                /\ UNCHANGED << savedData, vault, deployments, waiter, deleted, pruner,
                    domains, slugs >>

\* The publish button while no call is running.
PublishClick == AllIdle /\ PublishCall(StartSlot)

\* The array a suspended loop goes on iterating once filter has put a new
\* array in settings.publishedPages: the old array.  The object of the
\* removed page is in no registry any more and keeps its slug; the other
\* objects are shared with the new array.
Snapshot(pages, file) ==
    [ i \in 1..Len(pages) |->
        IF pages[i].filePath = file
        THEN [filePath |-> file, slug |-> pages[i].slug, live |-> FALSE]
        ELSE [filePath |-> pages[i].filePath, slug |-> NoSlug, live |-> TRUE] ]

\* An old array that loses one more of its objects to a later filter.
Freeze(loopPages, pages, file) ==
    [ i \in 1..Len(loopPages) |->
        IF loopPages[i].live /\ loopPages[i].filePath = file
        THEN [filePath |-> file, slug |-> SlugOf(pages, file), live |-> FALSE]
        ELSE loopPages[i] ]

\* What the filter of an unpublish of file does to another call: one that
\* is suspended in its for...of loop keeps the array it started on.
Detach(task, pages, file) ==
    IF task.pc # "loop" THEN task
    ELSE [task EXCEPT
            !.loopPages = IF task.detached THEN Freeze(@, pages, file)
                          ELSE Snapshot(pages, file),
            !.detached = TRUE,
            !.removedInLoop = @ \cup {file}]

\* The unpublish button (shown when the file was registered as the modal
\* opened): onUnpublish() calls unpublishFromVercel(file), which runs to its
\* first await.  The call runs in slot s.
UnpublishCall(s) ==
    /\ modal.open
    /\ modal.isPublished
    /\ tasks[s].pc = "idle"
    /\ opsStarted < MaxOps
    /\ LET file == modal.file
           pages == settings.publishedPages
           remaining == RemovePage(pages, file)
           call == [IdleTask EXCEPT !.kind = "unpublish", !.file = file,
                                    !.prevSlug = SlugOf(pages, file),
                                    !.pagesBefore = pages]
       IN  /\ modal' = ClosedModal
           /\ opsStarted' = opsStarted + 1
           /\ IF ~Configured
              THEN /\ tasks' = [tasks EXCEPT ![s] = [call EXCEPT !.outcome = "config"]]
                   /\ UNCHANGED << settings, savedData, removedSlug, publishKind >>
              ELSE IF ~IsRegistered(pages, file)
              THEN /\ tasks' = [tasks EXCEPT ![s] =
                                   [call EXCEPT !.outcome = "not-published"]]
                   /\ UNCHANGED << settings, savedData, removedSlug, publishKind >>
              ELSE /\ settings' = [settings EXCEPT !.publishedPages = remaining]
                   /\ removedSlug' = [removedSlug EXCEPT ![file] = SlugOf(pages, file)]
                   /\ publishKind' = [publishKind EXCEPT ![file] = "none"]
                   /\ IF Len(remaining) = 0
                      THEN \* "If no more pages published": save and return
                           /\ savedData' = settings'
                           /\ tasks' = [ t \in Slots |->
                                           IF t = s
                                           THEN [call EXCEPT !.pc = "save",
                                                             !.outcome = "running"]
                                           ELSE Detach(tasks[t], pages, file) ]
                      ELSE /\ tasks' = [ t \in Slots |->
                                           IF t = s
                                           THEN [call EXCEPT !.pc = "loop", !.idx = 1,
                                                             !.outcome = "running",
                                                             !.vercelFiles = << VercelJson >>]
                                           ELSE Detach(tasks[t], pages, file) ]
                           /\ UNCHANGED savedData
           /\ UNCHANGED << vault, deployments, waiter, deleted, pruner,
                    domains, slugs >>

(***************************************************************************)
(* The rest of both calls: the loop over publishedPages, the deploy        *)
(* request, the stamping of the registry and the save.                     *)
(***************************************************************************)
\* The unpublish button while no call is running.
UnpublishClick == AllIdle /\ UnpublishCall(StartSlot)

\* The length of the array the loop of slot s iterates: the array that was
\* in settings.publishedPages when the loop started.
LoopLen(s) ==
    IF tasks[s].detached THEN Len(tasks[s].loopPages)
    ELSE Len(settings.publishedPages)

\* The element the loop of slot s is at.
LoopPage(s) ==
    IF tasks[s].detached
    THEN LET e == tasks[s].loopPages[tasks[s].idx]
         IN  [filePath |-> e.filePath,
              slug |-> IF e.live THEN SlugOf(settings.publishedPages, e.filePath)
                       ELSE e.slug]
    ELSE settings.publishedPages[tasks[s].idx]

\* One iteration of "for (const publishedPage of this.settings.publishedPages)".
ProcessPage(s) ==
    /\ tasks[s].pc = "loop"
    /\ tasks[s].idx <= LoopLen(s)
    /\ tasks' = [tasks EXCEPT
                   ![s].vercelFiles = @ \o PageFiles(vault, LoopPage(s)),
                   ![s].idx = @ + 1]
    /\ UNCHANGED << settings, savedData, vault, modal, deployments, opsStarted,
                    removedSlug, publishKind, waiter, deleted, pruner,
                    domains, slugs >>

\* The loop is over: vercelApi.deploy(vercelFiles) sends the request.
SendDeploy(s) ==
    /\ tasks[s].pc = "loop"
    /\ tasks[s].idx > LoopLen(s)
    /\ tasks' = [tasks EXCEPT ![s].pc = "deploy", ![s].requested = TRUE]
    /\ UNCHANGED << settings, savedData, vault, modal, deployments, opsStarted,
                    removedSlug, publishKind, waiter, deleted, pruner,
                    domains, slugs >>

\* The deploy request succeeds: every entry is stamped with the id of the
\* response and saveSettings is called.
DeployOk(s) ==
    /\ tasks[s].pc = "deploy"
    /\ deployments' = deployments + 1
    /\ settings' = [settings EXCEPT !.publishedPages = Stamp(@, deployments')]
    /\ savedData' = settings'
    /\ tasks' = [tasks EXCEPT ![s].pc = "save", ![s].deployment = deployments']
    /\ UNCHANGED << vault, modal, opsStarted, removedSlug, publishKind, waiter, deleted, pruner,
                    domains, slugs >>

\* Variant of DeployFail whose catch block puts the registry back as it was
\* when the call started (sensitivity check of the failure properties).
DeployFailRollsBack(s) ==
    /\ tasks[s].pc = "deploy"
    /\ tasks' = [tasks EXCEPT ![s].pc = "idle", ![s].outcome = "failed"]
    /\ settings' = [settings EXCEPT !.publishedPages = tasks[s].pagesBefore]
    /\ UNCHANGED << savedData, vault, modal, deployments, opsStarted,
                    removedSlug, publishKind, waiter, deleted, pruner,
                    domains, slugs >>

\* The deploy request fails: deploy throws, the catch block reports it.
DeployFail(s) ==
    /\ tasks[s].pc = "deploy"
    /\ tasks' = [tasks EXCEPT ![s].pc = "idle", ![s].outcome = "failed"]
    /\ UNCHANGED << settings, savedData, vault, modal, deployments, opsStarted,
                    removedSlug, publishKind, waiter, deleted, pruner,
                    domains, slugs >>

\* saveSettings returns: the success notice is shown and the call ends.
SaveDone(s) ==
    /\ tasks[s].pc = "save"
    /\ tasks' = [tasks EXCEPT ![s].pc = "idle", ![s].outcome = "success"]
    /\ UNCHANGED << settings, savedData, vault, modal, deployments, opsStarted,
                    removedSlug, publishKind, waiter, deleted, pruner,
                    domains, slugs >>

(***************************************************************************)
(* publishAllNotesToVercel (the "Publish all notes to Vercel" command).    *)
(***************************************************************************)
\* vault.getMarkdownFiles()
getMarkdownFiles(files) ==
    SelectSeq(VaultFiles, LAMBDA f : f \in files /\ Extension(f) = "md")

\* The manifest publishAllNotesToVercel builds: one {slug}/index.html per
\* note, its slug derived from the base name; markdownToHtml is given
\* neither the path nor a parent slug.
AllNotesFiles(files) ==
    LET notes == getMarkdownFiles(files)
    IN  [ i \in 1..Len(notes) |->
            [file |-> generateSlug(Basename(notes[i])) \o "/index.html",
             data |-> HtmlOf([title |-> Basename(notes[i]), doc |-> notes[i],
                              parentSlug |-> ""]),
             encoding |-> "utf-8"] ]

\* The command runs publishAllNotesToVercel up to vercelApi.deploy: the
\* settings checks, the notes read and rendered, the request sent.
PublishAllNotes ==
    /\ ~modal.open
    /\ AllIdle
    /\ opsStarted < MaxOps
    /\ LET s == StartSlot
           call == [IdleTask EXCEPT !.kind = "publishAll",
                                    !.pagesBefore = settings.publishedPages]
       IN  /\ opsStarted' = opsStarted + 1
           /\ IF ~Configured
              THEN tasks' = [tasks EXCEPT ![s] = [call EXCEPT !.outcome = "config"]]
              ELSE IF Len(getMarkdownFiles(vault)) = 0
              THEN tasks' = [tasks EXCEPT ![s] = [call EXCEPT !.outcome = "no-files"]]
              ELSE tasks' = [tasks EXCEPT ![s] =
                                [call EXCEPT !.pc = "deployAll",
                                             !.outcome = "running",
                                             !.vercelFiles = AllNotesFiles(vault),
                                             !.requested = TRUE]]
    /\ UNCHANGED << settings, savedData, vault, modal, deployments, removedSlug,
                    publishKind, waiter, deleted, pruner,
                    domains, slugs >>

\* The deploy request of publishAllNotesToVercel succeeds: the response is
\* dropped and the success notice is shown.
PublishAllOk(s) ==
    /\ tasks[s].pc = "deployAll"
    /\ deployments' = deployments + 1
    /\ tasks' = [tasks EXCEPT ![s].pc = "idle", ![s].outcome = "success"]
    /\ UNCHANGED << settings, savedData, vault, modal, opsStarted, removedSlug,
                    publishKind, waiter, deleted, pruner,
                    domains, slugs >>

\* The deploy request of publishAllNotesToVercel fails: the catch block
\* reports it.
PublishAllFail(s) ==
    /\ tasks[s].pc = "deployAll"
    /\ tasks' = [tasks EXCEPT ![s].pc = "idle", ![s].outcome = "failed"]
    /\ UNCHANGED << settings, savedData, vault, modal, deployments, opsStarted,
                    removedSlug, publishKind, waiter, deleted, pruner,
                    domains, slugs >>

(***************************************************************************)
(* The environment: the settings tab and the vault.                        *)
(***************************************************************************)
\* The settings tab's onChange of "Vercel API token".
SetApiToken(value) ==
    /\ ~modal.open
    /\ AllIdle
    /\ value # settings.vercelApiToken
    /\ settings' = [settings EXCEPT !.vercelApiToken = value]
    /\ savedData' = settings'
    /\ UNCHANGED << vault, modal, tasks, deployments, opsStarted, removedSlug,
                    publishKind, waiter, deleted, pruner,
                    domains, slugs >>

\* The settings tab's onChange of "Vercel project name".
SetProjectName(value) ==
    /\ ~modal.open
    /\ AllIdle
    /\ value # settings.vercelProjectName
    /\ settings' = [settings EXCEPT !.vercelProjectName = value]
    /\ savedData' = settings'
    /\ UNCHANGED << vault, modal, tasks, deployments, opsStarted, removedSlug,
                    publishKind, waiter, deleted, pruner,
                    domains, slugs >>

\* The user deletes a file from the vault, between two calls.
DeleteFile(f) ==
    /\ ~modal.open
    /\ AllIdle
    /\ f \in vault
    /\ vault' = vault \ {f}
    /\ UNCHANGED << settings, savedData, modal, tasks, deployments, opsStarted,
                    removedSlug, publishKind, waiter, deleted, pruner,
                    domains, slugs >>

(***************************************************************************)
(* Specification: one publish / unpublish call at a time.                  *)
(***************************************************************************)
Next ==
    \/ \E f \in Roots : OpenModal(f)
    \/ \E text \in SlugTexts \cup {""} : SlugInput(text)
    \/ CloseModal
    \/ PublishClick
    \/ UnpublishClick
    \/ \E s \in Slots : ProcessPage(s)
    \/ \E s \in Slots : SendDeploy(s)
    \/ \E s \in Slots : DeployOk(s)
    \/ \E s \in Slots : DeployFail(s)
    \/ \E s \in Slots : SaveDone(s)
    \/ PublishAllNotes
    \/ \E s \in Slots : PublishAllOk(s)
    \/ \E s \in Slots : PublishAllFail(s)
    \/ \E f \in Deletable : DeleteFile(f)

Spec == Init /\ [][Next]_vars

(***************************************************************************)
(* Specification: calls that overlap.  The modal can be opened and either  *)
(* button clicked while a call is suspended at one of its awaits; no lock  *)
(* is taken.  At most two calls are in flight; slugs are the hash slugs.   *)
(***************************************************************************)
\* The publish button, whatever else is running.
PublishClickOverlapping == PublishCall(FreeSlot)

\* The unpublish button, whatever else is running.
UnpublishClickOverlapping == UnpublishCall(FreeSlot)

NextOverlap ==
    \/ \E f \in Roots : ShowModal(f)
    \/ PublishClickOverlapping
    \/ UnpublishClickOverlapping
    \/ \E s \in Slots : ProcessPage(s)
    \/ \E s \in Slots : SendDeploy(s)
    \/ \E s \in Slots : DeployOk(s)
    \/ \E s \in Slots : DeployFail(s)
    \/ \E s \in Slots : SaveDone(s)

SpecOverlap == Init /\ [][NextOverlap]_vars

(***************************************************************************)
(* Specification: a fresh install whose settings tab is filled in, and     *)
(* cleared again, between the calls.                                       *)
(***************************************************************************)
\* onload with no data saved: the settings are DEFAULT_SETTINGS.
InitFresh ==
    /\ settings = DEFAULT_SETTINGS
    /\ savedData = DEFAULT_SETTINGS
    /\ vault = AllFiles
    /\ modal = ClosedModal
    /\ tasks = [s \in Slots |-> IdleTask]
    /\ deployments = 0
    /\ opsStarted = 0
    /\ removedSlug = [f \in Roots |-> NoSlug]
    /\ publishKind = [f \in Roots |-> "none"]
    /\ waiter = IdleWaiter
    /\ deleted = {}
    /\ pruner = IdlePruner
    /\ domains = NoDomains
    /\ slugs = NoSlugs

NextConfig ==
    \/ \E value \in TokenValues : SetApiToken(value)
    \/ \E value \in ProjectValues : SetProjectName(value)
    \/ \E f \in Roots : OpenModal(f)
    \/ CloseModal
    \/ PublishClick
    \/ UnpublishClick
    \/ \E s \in Slots : ProcessPage(s)
    \/ \E s \in Slots : SendDeploy(s)
    \/ \E s \in Slots : DeployOk(s)
    \/ \E s \in Slots : DeployFail(s)
    \/ \E s \in Slots : SaveDone(s)
    \/ PublishAllNotes
    \/ \E s \in Slots : PublishAllOk(s)
    \/ \E s \in Slots : PublishAllFail(s)

SpecConfig == InitFresh /\ [][NextConfig]_vars

(***************************************************************************)
(* VercelApi.waitForDeployment.  Time is in milliseconds; elapsed is       *)
(* Date.now() - startTime.                                                 *)
(***************************************************************************)
\* const pollInterval = 3000
pollInterval == 3000

\* The default of the maxWaitTime parameter.
DefaultMaxWaitTime == 300000

\* The maxWaitTime a caller passes.
MaxWaitTimes == { 0, pollInterval, 7000, DefaultMaxWaitTime }

\* The time a status request takes, and the time a timer fires late.
Latencies == { 0, 1000 }

\* The readyState values the status request returns.
ReadyStates == { "QUEUED", "BUILDING", "READY", "ERROR", "CANCELED" }

\* A caller calls waitForDeployment(deploymentId, maxWaitTime):
\* startTime = Date.now().
WaitStart(maxWaitTime) ==
    /\ waiter.pc = "idle"
    /\ waiter' = [IdleWaiter EXCEPT !.pc = "check", !.maxWaitTime = maxWaitTime]
    /\ UNCHANGED << settings, savedData, vault, modal, tasks, deployments,
                    opsStarted, removedSlug, publishKind, deleted, pruner,
                    domains, slugs >>

\* Variant of WaitCheck whose loop test admits one more full default wait
\* (sensitivity check of the bounded wait).
WaitCheckLate ==
    /\ waiter.pc = "check"
    /\ IF waiter.elapsed < waiter.maxWaitTime + DefaultMaxWaitTime
       THEN waiter' = [waiter EXCEPT !.pc = "request", !.requests = @ + 1]
       ELSE waiter' = [waiter EXCEPT !.pc = "done", !.result = "timeout"]
    /\ UNCHANGED << settings, savedData, vault, modal, tasks, deployments,
                    opsStarted, removedSlug, publishKind, deleted, pruner,
                    domains, slugs >>

\* while (Date.now() - startTime < maxWaitTime): the body starts with the
\* status request; past the loop, the timeout error is thrown.
WaitCheck ==
    /\ waiter.pc = "check"
    /\ IF waiter.elapsed < waiter.maxWaitTime
       THEN waiter' = [waiter EXCEPT !.pc = "request", !.requests = @ + 1]
       ELSE waiter' = [waiter EXCEPT !.pc = "done", !.result = "timeout"]
    /\ UNCHANGED << settings, savedData, vault, modal, tasks, deployments,
                    opsStarted, removedSlug, publishKind, deleted, pruner,
                    domains, slugs >>

\* Variant of StatusReturns that tests for READY only (sensitivity check of
\* the terminal failures).
StatusReturnsReadyOnly(status, latency) ==
    /\ waiter.pc = "request"
    /\ waiter' = [waiter EXCEPT
                    !.elapsed = @ + latency,
                    !.status = status,
                    !.pc = IF status = "READY" THEN "done" ELSE "sleep",
                    !.result = IF status = "READY" THEN "ready" ELSE @]
    /\ UNCHANGED << settings, savedData, vault, modal, tasks, deployments,
                    opsStarted, removedSlug, publishKind, deleted, pruner,
                    domains, slugs >>

\* getDeploymentStatus resolves with data.readyState: READY returns true,
\* ERROR and CANCELED throw, any other status goes on to the timer.
StatusReturns(status, latency) ==
    /\ waiter.pc = "request"
    /\ waiter' = [waiter EXCEPT
                    !.elapsed = @ + latency,
                    !.status = status,
                    !.pc = IF status \in {"READY", "ERROR", "CANCELED"}
                           THEN "done" ELSE "sleep",
                    !.result = IF status = "READY" THEN "ready"
                               ELSE IF status \in {"ERROR", "CANCELED"}
                               THEN "failed" ELSE @]
    /\ UNCHANGED << settings, savedData, vault, modal, tasks, deployments,
                    opsStarted, removedSlug, publishKind, deleted, pruner,
                    domains, slugs >>

\* requestUrl rejects (network error, HTTP error status): getDeploymentStatus
\* has no catch, so waitForDeployment rejects with that error.
StatusRequestFails(latency) ==
    /\ waiter.pc = "request"
    /\ waiter' = [waiter EXCEPT !.elapsed = @ + latency, !.status = "none",
                                !.pc = "done", !.result = "rejected"]
    /\ UNCHANGED << settings, savedData, vault, modal, tasks, deployments,
                    opsStarted, removedSlug, publishKind, deleted, pruner,
                    domains, slugs >>

\* setTimeout(resolve, pollInterval) fires, no earlier than pollInterval
\* after it was set, and the loop tests its condition again.
TimerFires(latency) ==
    /\ waiter.pc = "sleep"
    /\ waiter' = [waiter EXCEPT !.elapsed = @ + pollInterval + latency,
                                !.pc = "check"]
    /\ UNCHANGED << settings, savedData, vault, modal, tasks, deployments,
                    opsStarted, removedSlug, publishKind, deleted, pruner,
                    domains, slugs >>

\* The steps of a waitForDeployment call after its start.
WaitStep ==
    \/ WaitCheck
    \/ \E status \in ReadyStates, latency \in Latencies :
          StatusReturns(status, latency)
    \/ \E latency \in Latencies : TimerFires(latency)

NextWait ==
    \/ \E maxWaitTime \in MaxWaitTimes : WaitStart(maxWaitTime)
    \/ WaitStep
    \/ \E latency \in Latencies : StatusRequestFails(latency)

\* A caller of waitForDeployment, with no publish or unpublish running.
SpecWait == Init /\ [][NextWait]_vars

\* The same with the event loop running every continuation that is ready:
\* every status request returns a status and every timer fires.
FairSpecWait == SpecWait /\ WF_vars(WaitStep)

(***************************************************************************)
(* VercelApi.deleteUnusedDeployments, with getDeployments and              *)
(* deleteDeployment.                                                       *)
(***************************************************************************)
\* The most deployments the project holds when the call is made.
MaxHostDeployments == 3

\* The deployments of the project the host holds: those created and not
\* deleted on request.
HostDeployments == (1..deployments) \ deleted

\* The project's deployments when a caller prunes: some number of them
\* were created by earlier sessions.
InitPrune ==
    /\ settings = ConfiguredData
    /\ savedData = ConfiguredData
    /\ vault = AllFiles
    /\ modal = ClosedModal
    /\ tasks = [s \in Slots |-> IdleTask]
    /\ deployments \in 0..MaxHostDeployments
    /\ opsStarted = 0
    /\ removedSlug = [f \in Roots |-> NoSlug]
    /\ publishKind = [f \in Roots |-> "none"]
    /\ waiter = IdleWaiter
    /\ deleted = {}
    /\ pruner = IdlePruner
    /\ domains = NoDomains
    /\ slugs = NoSlugs

\* Variant of DeploymentsToDelete with the filter's test inverted
\* (sensitivity check of the pruning).
DeploymentsToDeleteInverted(listed, activeDeploymentIds) ==
    { d \in listed : d \in activeDeploymentIds }

\* deployments.filter(d => !activeDeploymentIds.includes(d.uid))
DeploymentsToDelete(listed, activeDeploymentIds) ==
    { d \in listed : d \notin activeDeploymentIds }

\* A caller calls deleteUnusedDeployments(activeDeploymentIds): the list
\* request is sent.
PruneStart(activeDeploymentIds) ==
    /\ pruner.pc = "idle"
    /\ pruner' = [IdlePruner EXCEPT !.pc = "list",
                                    !.activeDeploymentIds = activeDeploymentIds]
    /\ UNCHANGED << settings, savedData, vault, modal, tasks, deployments,
                    opsStarted, removedSlug, publishKind, waiter, deleted,
                    domains, slugs >>

\* getDeployments resolves with the project's deployments: the stale ones
\* are filtered and one DELETE request per stale deployment is sent, all
\* before any of them returns (Promise.all over map).
ListReturns ==
    /\ pruner.pc = "list"
    /\ LET deploymentsToDelete ==
               DeploymentsToDelete(HostDeployments, pruner.activeDeploymentIds)
       IN  pruner' = [pruner EXCEPT
                        !.listed = HostDeployments,
                        !.requested = deploymentsToDelete,
                        !.pending = deploymentsToDelete,
                        !.pc = IF deploymentsToDelete = {} THEN "done" ELSE "deleting",
                        !.result = IF deploymentsToDelete = {} THEN "ok" ELSE @]
    /\ UNCHANGED << settings, savedData, vault, modal, tasks, deployments,
                    opsStarted, removedSlug, publishKind, waiter, deleted,
                    domains, slugs >>

\* The list request fails: getDeployments catches and returns [], so there
\* is nothing to delete.
ListFails ==
    /\ pruner.pc = "list"
    /\ pruner' = [pruner EXCEPT !.listFailed = TRUE, !.pc = "done", !.result = "ok"]
    /\ UNCHANGED << settings, savedData, vault, modal, tasks, deployments,
                    opsStarted, removedSlug, publishKind, waiter, deleted,
                    domains, slugs >>

\* The DELETE request of deployment d succeeds; with the last one back,
\* Promise.all resolves and the call returns.
DeleteReturns(d) ==
    /\ pruner.pc = "deleting"
    /\ d \in pruner.pending
    /\ deleted' = deleted \cup {d}
    /\ pruner' = [pruner EXCEPT
                    !.pending = @ \ {d},
                    !.pc = IF pruner.pending = {d} THEN "done" ELSE @,
                    !.result = IF pruner.pending = {d} THEN "ok" ELSE @]
    /\ UNCHANGED << settings, savedData, vault, modal, tasks, deployments,
                    opsStarted, removedSlug, publishKind, waiter, domains, slugs >>

\* Variant of DeleteFails whose error is not caught: Promise.all rejects and
\* the call ends with the error (sensitivity check of the swallowed errors).
DeleteFailsThrows(d) ==
    /\ pruner.pc = "deleting"
    /\ d \in pruner.pending
    /\ pruner' = [pruner EXCEPT !.pending = @ \ {d}, !.failed = @ \cup {d},
                                !.pc = "done", !.result = "rejected"]
    /\ UNCHANGED << settings, savedData, vault, modal, tasks, deployments,
                    opsStarted, removedSlug, publishKind, waiter, deleted,
                    domains, slugs >>

\* The DELETE request of deployment d fails: deleteDeployment catches the
\* error and resolves.
DeleteFails(d) ==
    /\ pruner.pc = "deleting"
    /\ d \in pruner.pending
    /\ pruner' = [pruner EXCEPT
                    !.pending = @ \ {d},
                    !.failed = @ \cup {d},
                    !.pc = IF pruner.pending = {d} THEN "done" ELSE @,
                    !.result = IF pruner.pending = {d} THEN "ok" ELSE @]
    /\ UNCHANGED << settings, savedData, vault, modal, tasks, deployments,
                    opsStarted, removedSlug, publishKind, waiter, deleted,
                    domains, slugs >>

NextPrune ==
    \/ \E activeDeploymentIds \in SUBSET (1..MaxHostDeployments) :
          PruneStart(activeDeploymentIds)
    \/ ListReturns
    \/ ListFails
    \/ \E d \in 1..MaxHostDeployments : DeleteReturns(d)
    \/ \E d \in 1..MaxHostDeployments : DeleteFails(d)

\* A caller of deleteUnusedDeployments, with no publish or unpublish running.
SpecPrune == InitPrune /\ [][NextPrune]_vars

(***************************************************************************)
(* VercelApi.getProjectDomains.                                            *)
(***************************************************************************)
\* The names the host may report for the project's domains.
DomainNames == { "a.com", "b.org", "proj.vercel.app", "x.vercel.app" }

\* One element of the response's domains array.
DomainRecords == [name : DomainNames, verified : BOOLEAN, configured : BOOLEAN]

\* The most elements of the response's domains array.
MaxDomains == 2

\* The bodies of a domains response: without a domains array, or with one.
DomainsResponses ==
    { [status |-> "ok", hasDomains |-> FALSE, domains |-> << >>] } \cup
    { [status |-> "ok", hasDomains |-> TRUE, domains |-> ds] :
          ds \in UNION { [1..n -> DomainRecords] : n \in 0..MaxDomains } }

\* `${this.projectName}.vercel.app`
DefaultDomain(projectName) == projectName \o ".vercel.app"

\* domainsData.domains.filter(d => d.verified || d.configured).map(d => d.name)
RECURSIVE ConfiguredDomains(_)
ConfiguredDomains(ds) ==
    IF ds = << >> THEN << >>
    ELSE (IF Head(ds).verified \/ Head(ds).configured
          THEN << Head(ds).name >> ELSE << >>) \o ConfiguredDomains(Tail(ds))

\* domainsData.domains.map(d => d.name): the names with no filter applied.
RECURSIVE AllDomainNames(_)
AllDomainNames(ds) ==
    IF ds = << >> THEN << >>
    ELSE << Head(ds).name >> \o AllDomainNames(Tail(ds))

\* configuredDomains.filter(d => !d.endsWith(".vercel.app"))
RECURSIVE CustomDomains(_)
CustomDomains(names) ==
    IF names = << >> THEN << >>
    ELSE (IF ~EndsWith(Head(names), ".vercel.app")
          THEN << Head(names) >> ELSE << >>) \o CustomDomains(Tail(names))

\* Variant of getProjectDomains without the verified/configured filter
\* (sensitivity check of the domain list).
getProjectDomainsUnfiltered(projectName, response) ==
    IF response.status # "ok" THEN << DefaultDomain(projectName) >>
    ELSE LET customDomains ==
                 IF response.hasDomains
                 THEN CustomDomains(AllDomainNames(response.domains))
                 ELSE << >>
         IN  IF customDomains # << >>
             THEN customDomains \o << DefaultDomain(projectName) >>
             ELSE << DefaultDomain(projectName) >>

\* getProjectDomains: the list it returns for a response of the domains
\* endpoint; a failed request lands in the catch block.
getProjectDomains(projectName, response) ==
    IF response.status # "ok" THEN << DefaultDomain(projectName) >>
    ELSE LET customDomains ==
                 IF response.hasDomains
                 THEN CustomDomains(ConfiguredDomains(response.domains))
                 ELSE << >>
         IN  IF customDomains # << >>
             THEN customDomains \o << DefaultDomain(projectName) >>
             ELSE << DefaultDomain(projectName) >>

\* The modal's loadDomains creates a VercelApi of the settings and calls
\* getProjectDomains: the request is sent.
DomainsRequest ==
    /\ domains.pc = "idle"
    /\ domains' = [NoDomains EXCEPT !.pc = "request",
                                    !.projectName = settings.vercelProjectName]
    /\ UNCHANGED << settings, savedData, vault, modal, tasks, deployments,
                    opsStarted, removedSlug, publishKind, waiter, deleted,
                    pruner, slugs >>

\* The domains request returns a body.
DomainsReturns(response) ==
    /\ domains.pc = "request"
    /\ domains' = [domains EXCEPT
                     !.pc = "done",
                     !.response = response,
                     !.result = getProjectDomains(domains.projectName, response)]
    /\ UNCHANGED << settings, savedData, vault, modal, tasks, deployments,
                    opsStarted, removedSlug, publishKind, waiter, deleted,
                    pruner, slugs >>

\* The domains request fails.
DomainsFails ==
    /\ domains.pc = "request"
    /\ domains' = [domains EXCEPT
                     !.pc = "done",
                     !.response = [NoResponse EXCEPT !.status = "failed"],
                     !.result = getProjectDomains(domains.projectName,
                                    [NoResponse EXCEPT !.status = "failed"])]
    /\ UNCHANGED << settings, savedData, vault, modal, tasks, deployments,
                    opsStarted, removedSlug, publishKind, waiter, deleted,
                    pruner, slugs >>

NextDomains ==
    \/ DomainsRequest
    \/ \E response \in DomainsResponses : DomainsReturns(response)
    \/ DomainsFails

\* One getProjectDomains call of a configured plugin.
SpecDomains == Init /\ [][NextDomains]_vars

(***************************************************************************)
(* generateSlug applied to a text and to its own result.                   *)
(***************************************************************************)
\* The characters of the texts: a lower-case and an upper-case letter, a
\* digit, the hyphen, the space and a punctuation mark.
TextChars == { "a", "B", "1", "-", " ", "!" }

\* The longest text made of TextChars.
MaxTextLen == 3

RECURSIVE TextsUpTo(_)
TextsUpTo(n) ==
    IF n = 0 THEN { "" }
    ELSE LET shorter == TextsUpTo(n - 1)
         IN  shorter \cup { c \o t : c \in TextChars, t \in shorter }

\* The texts given to generateSlug: a note's base name or the modal's input.
SlugInputs == TextsUpTo(MaxTextLen) \cup { "My Great Note!" }

InitSlug ==
    /\ settings = ConfiguredData
    /\ savedData = ConfiguredData
    /\ vault = AllFiles
    /\ modal = ClosedModal
    /\ tasks = [s \in Slots |-> IdleTask]
    /\ deployments = NoDeployment
    /\ opsStarted = 0
    /\ removedSlug = [f \in Roots |-> NoSlug]
    /\ publishKind = [f \in Roots |-> "none"]
    /\ waiter = IdleWaiter
    /\ deleted = {}
    /\ pruner = IdlePruner
    /\ domains = NoDomains
    /\ slugs \in { [NoSlugs EXCEPT !.text = t] : t \in SlugInputs }

\* generateSlug(text), and generateSlug of what it returned.
Normalize ==
    /\ slugs.pc = "idle"
    /\ slugs' = [slugs EXCEPT
                   !.pc = "done",
                   !.once = generateSlug(slugs.text),
                   !.twice = generateSlug(generateSlug(slugs.text))]
    /\ UNCHANGED << settings, savedData, vault, modal, tasks, deployments,
                    opsStarted, removedSlug, publishKind, waiter, deleted,
                    pruner, domains >>

NextSlug == Normalize

SpecSlug == InitSlug /\ [][NextSlug]_vars

(***************************************************************************)
(* Vocabulary of the properties.                                           *)
(***************************************************************************)
Registry == settings.publishedPages

\* The calls whose deploy request is in flight: tasks[s].vercelFiles is the
\* manifest they submitted.
Submitting == { s \in Slots : tasks[s].pc = "deploy" }

\* The paths of a manifest, and its entries as a set.
PathsOf(vercelFiles) == { vercelFiles[k].file : k \in 1..Len(vercelFiles) }

EntriesOf(vercelFiles) == { vercelFiles[k] : k \in 1..Len(vercelFiles) }

\* path lies in the folder named slug.
Under(path, slug) == StartsWith(path, slug \o "/")

\* The manifest holds a page rendered from doc at path.
HasPage(vercelFiles, path, doc) ==
    \E e \in EntriesOf(vercelFiles) :
        e.file = path /\ e.data.kind = "html" /\ e.data.doc = doc

\* The manifest holds the asset at path.
HasAsset(vercelFiles, path, asset) ==
    \E e \in EntriesOf(vercelFiles) :
        e.file = path /\ e.data.kind = "base64" /\ e.data.asset = asset

SeqToSet(seq) == { seq[i] : i \in 1..Len(seq) }

(***************************************************************************)
(* Deployment id fan-out.                                                  *)
(***************************************************************************)
\* C1: once the deploy request of a publish or unpublish call has succeeded
\* (the call is saving, or has ended, and no later call has started), every
\* entry of the registry, not only the page of the call, carries the id the
\* deploy request returned.
DeploymentIdFanOut ==
    \A s \in Slots :
        tasks[s].deployment # NoDeployment =>
            \A i \in 1..Len(Registry) :
                Registry[i].deploymentId = tasks[s].deployment

\* A second page was published by the second successful deployment while an
\* earlier page, stamped by the first, is still registered.
DeploymentIdFanOutWitness ==
    \E s \in Slots :
        /\ tasks[s].kind = "publish"
        /\ tasks[s].pc = "save"
        /\ tasks[s].deployment = 2
        /\ Len(Registry) = 2
        /\ Registry[2].filePath = tasks[s].file

(***************************************************************************)
(* Manifest completeness.                                                  *)
(***************************************************************************)
\* The files of a registered page's folder that the walk of its note finds.
LinkedOf(page) == SeqToSet(findLinkedPages(vault, page.filePath))

AssetsOf(page) ==
    UNION { SeqToSet(findAssets(vault, f)) : f \in {page.filePath} \cup LinkedOf(page) }

\* C2: the manifest a publish call submits holds, for every registry entry
\* whose note exists in the vault, {slug}/index.html rendered from the note,
\* {slug}/{normalized base name}.html rendered from each note one hop away
\* and {slug}/{file name} for each of their assets.
ManifestComplete ==
    \A s \in Submitting :
        tasks[s].kind = "publish" =>
            \A i \in 1..Len(Registry) :
                LET page == Registry[i]
                    vf == tasks[s].vercelFiles
                IN  page.filePath \in vault =>
                      /\ HasPage(vf, page.slug \o "/index.html", page.filePath)
                      /\ \A l \in LinkedOf(page) :
                            HasPage(vf, page.slug \o "/" \o generateSlug(Basename(l))
                                           \o ".html", l)
                      /\ \A a \in AssetsOf(page) :
                            HasAsset(vf, page.slug \o "/" \o FileName(a), a)

(***************************************************************************)
(* Unpublish.                                                              *)
(***************************************************************************)
\* The notes that were unpublished and not published again since.
Unpublished == { f \in Roots : removedSlug[f] # NoSlug }

\* C3 as stated: once page A is unpublished, then as long as another page
\* with a different slug is registered, the manifest of that call and of
\* every later call (until A is published again) has no path under A's slug
\* folder and holds that other page's {slug}/index.html.
UnpublishRemovesFolderAsStated ==
    \A s \in Submitting : \A f \in Unpublished :
        LET vf == tasks[s].vercelFiles
        IN  \A i \in 1..Len(Registry) :
                Registry[i].slug # removedSlug[f] =>
                    /\ \A path \in PathsOf(vf) : ~Under(path, removedSlug[f])
                    /\ Registry[i].slug \o "/index.html" \in PathsOf(vf)

\* C3, amended: after page A is unpublished, the manifest of that call and of
\* every later call (until A is published again) holds a path under A's slug
\* folder only as an entry built for another page, still registered, whose
\* slug is A's old slug or lies under it; and it holds {slug}/index.html,
\* rendered from its note, for every registered page whose note exists in
\* the vault.
UnpublishRemovesFolder ==
    \A s \in Submitting : \A f \in Unpublished :
        LET vf == tasks[s].vercelFiles
        IN  /\ \A e \in EntriesOf(vf) :
                  Under(e.file, removedSlug[f]) =>
                      \E i \in 1..Len(Registry) :
                          /\ Registry[i].filePath # f
                          /\ Under(Registry[i].slug \o "/", removedSlug[f])
                          /\ e \in EntriesOf(PageFiles(vault, Registry[i]))
            /\ \A i \in 1..Len(Registry) :
                  Registry[i].filePath \in vault =>
                      HasPage(vf, Registry[i].slug \o "/index.html",
                              Registry[i].filePath)

\* The unpublish of A.md submits its manifest while D.md, whose note exists,
\* stays registered under another slug.
UnpublishRemovesFolderWitness ==
    \E s \in Submitting :
        /\ tasks[s].kind = "unpublish"
        /\ tasks[s].file = "A.md"
        /\ removedSlug["A.md"] # NoSlug
        /\ IsRegistered(Registry, "D.md")
        /\ "D.md" \in vault
        /\ SlugOf(Registry, "D.md") # removedSlug["A.md"]
        /\ Len(tasks[s].vercelFiles) > 1

\* C4: an unpublish call on a registered page that reports success has sent
\* a deploy request whose manifest has no page rendered for the unpublished
\* note as a root; with no page left, the manifest is vercel.json alone.
UnpublishRedeploys ==
    \A s \in Slots :
        (tasks[s].kind = "unpublish" /\ tasks[s].outcome = "success") =>
            /\ tasks[s].requested
            /\ ~HasPage(tasks[s].vercelFiles,
                        tasks[s].prevSlug \o "/index.html", tasks[s].file)
            /\ (Len(Registry) = 0 => tasks[s].vercelFiles = << VercelJson >>)

(***************************************************************************)
(* Slugs.                                                                  *)
(***************************************************************************)
\* The publish calls that reached the registry (the settings were there),
\* running or ended with no later call started: the entry of the call's file
\* is as the call's upsert left it.
Published == { s \in Slots : tasks[s].kind = "publish" /\ tasks[s].outcome # "config" }

\* C5: when a note is published with no custom slug typed, and its previous
\* publish (with no unpublish in between) had none typed either, the registry
\* records for it the same slug after this publish as after the previous one.
SlugStable ==
    \A s \in Published :
        (~tasks[s].edited /\ tasks[s].prevKind = "default") =>
            SlugOf(Registry, tasks[s].file) = tasks[s].prevSlug

\* A note was published twice in a row with no slug typed and the second
\* publish has ended with success.
SlugStableWitness ==
    \E s \in Published :
        /\ ~tasks[s].edited
        /\ tasks[s].prevKind = "default"
        /\ tasks[s].outcome = "success"

\* C6: publishing a registered note with a custom slug typed replaces the
\* slug of the one entry of its path by the text submitted; publishing it
\* next with no slug typed leaves that stored slug as it is.
CustomSlugOverride ==
    \A s \in Published :
        LET f == tasks[s].file
        IN  /\ (tasks[s].edited /\ tasks[s].prevSlug # NoSlug) =>
                  /\ SlugOf(Registry, f) = tasks[s].customSlug
                  /\ Cardinality({ i \in 1..Len(Registry) : Registry[i].filePath = f }) = 1
            /\ (~tasks[s].edited /\ tasks[s].prevKind = "custom") =>
                  SlugOf(Registry, f) = tasks[s].prevSlug

\* A note whose slug was replaced by a typed one, different from the hash of
\* its path, has been published again with no slug typed.
CustomSlugOverrideWitness ==
    \E s \in Published :
        /\ ~tasks[s].edited
        /\ tasks[s].prevKind = "custom"
        /\ tasks[s].prevSlug # generateHashSlug(tasks[s].file)
        /\ tasks[s].outcome = "success"

\* C7: when a custom slug is typed, the slug stored in the registry, and used
\* as the folder of the page in the manifest, is the normalized form of the
\* text (generateSlug of it), not the text itself.
CustomSlugNormalized ==
    \A s \in Published :
        tasks[s].edited =>
            /\ SlugOf(Registry, tasks[s].file) = generateSlug(tasks[s].customSlug)
            /\ (s \in Submitting /\ tasks[s].file \in vault) =>
                  generateSlug(tasks[s].customSlug) \o "/index.html"
                      \in PathsOf(tasks[s].vercelFiles)

\* Slug as the data model defines it: [a-z0-9-]+, no hyphen at either end.
WellFormedSlug(slug) ==
    /\ slug # ""
    /\ CharsOf(slug) \subseteq AlnumChars \cup {"-"}
    /\ Head(slug) # "-"
    /\ SubSeq(slug, Len(slug), Len(slug)) # "-"

\* C8: every slug stored in the registry is non-empty, made of a-z, 0-9 and
\* '-' only, and neither starts nor ends with '-'.
RegistrySlugsWellFormed ==
    \A i \in 1..Len(Registry) : WellFormedSlug(Registry[i].slug)

HexChars == CharsOf("0123456789abcdef")

\* C9: when a note with no registry entry is published and no custom slug is
\* typed, the slug recorded is the 8 character lower-case hex digest of the
\* note's path (not a function of its base name).
DerivedSlugIsPathDigest ==
    \A s \in Published :
        (~tasks[s].edited /\ tasks[s].prevSlug = NoSlug) =>
            LET slug == SlugOf(Registry, tasks[s].file)
            IN  /\ slug = Sha256Hex8(tasks[s].file)
                /\ Len(slug) = 8
                /\ CharsOf(slug) \subseteq HexChars
                /\ slug # generateSlug(Basename(tasks[s].file))

\* Two notes with no entry were published with no slug typed, and the
\* registry holds both under different slugs.
DerivedSlugIsPathDigestWitness ==
    /\ \E s \in Published :
          /\ ~tasks[s].edited
          /\ tasks[s].prevSlug = NoSlug
          /\ tasks[s].pc = "save"
    /\ Len(Registry) = 2
    /\ \A i \in 1..2 : Registry[i].slug = Sha256Hex8(Registry[i].filePath)

\* C10: no manifest submitted by a publish or unpublish call holds two
\* entries with the same path.
ManifestPathsUnique ==
    \A s \in Submitting :
        LET vf == tasks[s].vercelFiles
        IN  \A j, k \in 1..Len(vf) : j # k => vf[j].file # vf[k].file

(***************************************************************************)
(* One-hop limit.                                                          *)
(***************************************************************************)
\* Note a holds a [[...]] or ![[...]] reference that resolves to note b.
LinksTo(a, b) ==
    \E k \in 1..Len(Content(a)) :
        /\ Content(a)[k].kind \in {"wikilink", "embed"}
        /\ getFirstLinkpathDest(vault, Content(a)[k].target) = b

\* C11: if a registered root A links to B and B links to E, and A itself
\* does not link to E, then no entry under A's slug folder in a submitted
\* manifest is a page rendered from E.
OneHopLimit ==
    \A s \in Submitting : \A i \in 1..Len(Registry) :
        LET A == Registry[i].filePath
        IN  \A B, E \in vault :
                (A \in vault /\ LinksTo(A, B) /\ LinksTo(B, E) /\ ~LinksTo(A, E)
                              /\ E # A) =>
                    \A e \in EntriesOf(tasks[s].vercelFiles) :
                        (Under(e.file, Registry[i].slug) /\ e.data.kind = "html") =>
                            e.data.doc # E

\* A.md (which links to B.md, which links to E.md) is registered and the
\* manifest submitted holds the page of B.md in A.md's folder.
OneHopLimitWitness ==
    \E s \in Submitting :
        /\ IsRegistered(Registry, "A.md")
        /\ LinksTo("A.md", "B.md") /\ LinksTo("B.md", "E.md")
        /\ ~LinksTo("A.md", "E.md")
        /\ \E e \in EntriesOf(tasks[s].vercelFiles) :
              /\ Under(e.file, SlugOf(Registry, "A.md"))
              /\ e.data.kind = "html"
              /\ e.data.doc = "B.md"

(***************************************************************************)
(* The static configuration entry.                                         *)
(***************************************************************************)
\* The calls whose deploy request is in flight, publishAllNotesToVercel
\* included.
Deploying == { s \in Slots : tasks[s].pc \in {"deploy", "deployAll"} }

\* C12: every manifest handed to the deploy request by publishPageToVercel,
\* unpublishFromVercel or publishAllNotesToVercel holds exactly one entry at
\* vercel.json, and it sets cleanUrls to true and trailingSlash to false.
VercelJsonInEveryManifest ==
    \A s \in Deploying :
        LET vf == tasks[s].vercelFiles
            at == { k \in 1..Len(vf) : vf[k].file = "vercel.json" }
        IN  /\ Cardinality(at) = 1
            /\ \A k \in at : /\ vf[k].data.kind = "config"
                             /\ vf[k].data.cleanUrls
                             /\ ~vf[k].data.trailingSlash

(***************************************************************************)
(* Configuration errors.                                                   *)
(***************************************************************************)
\* C13: a publishPageToVercel, unpublishFromVercel or publishAllNotesToVercel
\* call started while the API token or the project name is empty returns at
\* once with the settings notice: it has built no manifest (read no file),
\* sent no request, and left the settings, the registry in them and the
\* saved data as they were.
ConfigErrorsAbort ==
    [][ \A s \in Slots :
          ( /\ tasks[s].pc = "idle"
            /\ tasks'[s] # tasks[s]
            /\ (settings.vercelApiToken = "" \/ settings.vercelProjectName = "") ) =>
              /\ tasks'[s].pc = "idle"
              /\ tasks'[s].outcome = "config"
              /\ tasks'[s].vercelFiles = << >>
              /\ tasks'[s].idx = 0
              /\ ~tasks'[s].requested
              /\ settings' = settings
              /\ savedData' = savedData
              /\ deployments' = deployments ]_vars

\* With a page registered and stamped, and the token or the project name
\* cleared since, an unpublish call has returned with the settings notice.
ConfigErrorsAbortWitness ==
    \E s \in Slots :
        /\ tasks[s].kind = "unpublish"
        /\ tasks[s].outcome = "config"
        /\ Len(Registry) > 0
        /\ Registry[1].deploymentId # NoDeployment

(***************************************************************************)
(* Failure of the deploy request.                                          *)
(***************************************************************************)
\* The deployment id an entry of path had in pages; NoDeployment with none.
DeploymentIdOf(pages, path) ==
    IF IsRegistered(pages, path) THEN pages[FindIndex(pages, path)].deploymentId
    ELSE NoDeployment

\* C14: when the deploy request of a publish has failed, the call has ended
\* with the failure reported, the registry holds the entry of the page with
\* the slug of this attempt, and every entry has the deployment id it had
\* when the call started (none for an entry the call added).
DeployFailureKeepsUpsert ==
    \A s \in Slots :
        (tasks[s].kind = "publish" /\ tasks[s].outcome = "failed") =>
            /\ tasks[s].pc = "idle"
            /\ tasks[s].deployment = NoDeployment
            /\ IsRegistered(Registry, tasks[s].file)
            /\ SlugOf(Registry, tasks[s].file) = tasks[s].mainSlug
            /\ \A i \in 1..Len(Registry) :
                  Registry[i].deploymentId =
                      DeploymentIdOf(tasks[s].pagesBefore, Registry[i].filePath)

\* The deploy request of the publish of a note that was not registered has
\* failed while another page, stamped by an earlier deployment, is registered.
DeployFailureKeepsUpsertWitness ==
    \E s \in Slots :
        /\ tasks[s].kind = "publish"
        /\ tasks[s].outcome = "failed"
        /\ ~IsRegistered(tasks[s].pagesBefore, tasks[s].file)
        /\ \E i \in 1..Len(Registry) : Registry[i].deploymentId # NoDeployment

(***************************************************************************)
(* Durable save.                                                           *)
(***************************************************************************)
\* C15: when a publish or unpublish call has ended, with success or with a
\* failed deploy request, the saved data holds the registry as the call left
\* it in memory (after a failed publish: the upserted entry and its slug).
DurableSaveFollowsChange ==
    \A s \in Slots :
        ( /\ tasks[s].kind \in {"publish", "unpublish"}
          /\ tasks[s].pc = "idle"
          /\ tasks[s].outcome \in {"success", "failed"} ) =>
            savedData.publishedPages = settings.publishedPages

(***************************************************************************)
(* Registry writes and the deploy request.                                 *)
(***************************************************************************)
\* The calls whose deploy request has not returned successfully: still
\* building the manifest, waiting for the response, or ended by its failure.
NotDeployed ==
    { s \in Slots : \/ tasks[s].pc \in {"loop", "deploy", "deployAll"}
                    \/ tasks[s].outcome = "failed" }

\* C16: a call whose deploy request has not returned successfully has left
\* the registry as it was when the call started, apart from the entry of the
\* page a publish call upserts; in particular the page of an unpublish whose
\* deploy request failed is still registered.
RegistryWrittenOnlyAfterDeploy ==
    \A s \in NotDeployed :
        LET before == tasks[s].pagesBefore
        IN  /\ tasks[s].kind = "publish" =>
                  /\ \A i \in 1..Len(before) :
                        before[i].filePath # tasks[s].file => Registry[i] = before[i]
                  /\ Len(Registry) \in {Len(before), Len(before) + 1}
            /\ tasks[s].kind \in {"unpublish", "publishAll"} => Registry = before
            /\ (tasks[s].kind = "unpublish" /\ tasks[s].outcome = "failed") =>
                  IsRegistered(Registry, tasks[s].file)

(***************************************************************************)
(* Pages whose note was deleted from the vault.                            *)
(***************************************************************************)
\* The registered pages whose note is no longer in the vault.
VaultRemoved == { i \in 1..Len(Registry) : Registry[i].filePath \notin vault }

\* A submitted manifest has nothing of a vault-removed page: no page rendered
\* from its note, and no path in its slug folder unless a registered page
\* whose note exists has that same slug.
NothingOfVaultRemoved ==
    \A s \in Submitting : \A i \in VaultRemoved :
        \A e \in EntriesOf(tasks[s].vercelFiles) :
            /\ e.data.kind = "html" => e.data.doc # Registry[i].filePath
            /\ Under(e.file, Registry[i].slug) =>
                  \E j \in 1..Len(Registry) :
                      /\ Registry[j].filePath \in vault
                      /\ Registry[j].slug = Registry[i].slug

\* A note that was published, and not unpublished since, is registered,
\* whether or not it is still in the vault.
PublishedStaysRegistered ==
    \A f \in Roots : publishKind[f] # "none" => IsRegistered(Registry, f)

\* The step of a call whose loop is at a vault-removed page: the call stays
\* in its loop, moves to the next page and changes neither its manifest nor
\* the registry.
SkipStep ==
    \A s \in Slots :
        ( /\ tasks[s].pc = "loop"
          /\ tasks[s].idx \in VaultRemoved
          /\ tasks'[s] # tasks[s] ) =>
            /\ tasks'[s].pc = "loop"
            /\ tasks'[s].outcome = "running"
            /\ tasks'[s].idx = tasks[s].idx + 1
            /\ tasks'[s].vercelFiles = tasks[s].vercelFiles
            /\ settings' = settings

\* C17: a registry entry whose note is no longer in the vault contributes no
\* entry to a submitted manifest, does not end the publish or unpublish call
\* that meets it, and stays in the registry (only an unpublish removes it).
VaultRemovedPagesSkipped ==
    /\ [](NothingOfVaultRemoved /\ PublishedStaysRegistered)
    /\ [][SkipStep]_vars

\* A publish or unpublish call that met the registered page of D.md, deleted
\* from the vault, has ended with success, D.md still registered, and another
\* page's folder in its manifest.
VaultRemovedPagesSkippedWitness ==
    \E s \in Slots :
        /\ tasks[s].kind \in {"publish", "unpublish"}
        /\ tasks[s].outcome = "success"
        /\ "D.md" \notin vault
        /\ IsRegistered(tasks[s].pagesBefore, "D.md")
        /\ IsRegistered(Registry, "D.md")
        /\ Len(tasks[s].vercelFiles) > 1

(***************************************************************************)
(* waitForDeployment.                                                      *)
(***************************************************************************)
\* C18: waitForDeployment has returned success only when the last status
\* poll returned READY; once a poll has returned ERROR or CANCELED the call
\* has ended with a failure (no later poll, no success); a status request is
\* sent only while the elapsed time is below maxWaitTime, and the timeout
\* failure is raised only when it is not, no poll having returned READY,
\* ERROR or CANCELED.
WaitOutcomes ==
    /\ waiter.result = "ready" => waiter.status = "READY"
    /\ waiter.status = "READY" => (waiter.pc = "done" /\ waiter.result = "ready")
    /\ waiter.status \in {"ERROR", "CANCELED"} =>
          (waiter.pc = "done" /\ waiter.result = "failed")
    /\ waiter.result = "failed" => waiter.status \in {"ERROR", "CANCELED"}
    /\ waiter.pc = "request" => waiter.elapsed < waiter.maxWaitTime
    /\ waiter.result = "timeout" =>
          /\ waiter.elapsed >= waiter.maxWaitTime
          /\ waiter.status \notin {"READY", "ERROR", "CANCELED"}
    /\ (waiter.pc = "check" /\ waiter.requests > 0) =>
          waiter.status \in {"QUEUED", "BUILDING"}

\* A call that polled more than once has ended with a failure on CANCELED.
WaitOutcomesWitness ==
    /\ waiter.pc = "done"
    /\ waiter.result = "failed"
    /\ waiter.status = "CANCELED"
    /\ waiter.requests > 1

\* The greatest number of status requests C19 allows a call.
MaxStatusRequests(maxWaitTime) ==
    (maxWaitTime + pollInterval - 1) \div pollInterval + 1

\* C19: when every status request returns, a waitForDeployment call ends
\* (with success, a terminal failure or the timeout; with the error of a
\* request that was rejected), even if the deployment stays QUEUED or
\* BUILDING for ever, and it sends at most maxWaitTime / pollInterval,
\* rounded up, plus one status requests.
WaitTerminates ==
    /\ [](waiter.pc # "idle" => <>(waiter.pc = "done"))
    /\ [](waiter.pc = "done" =>
            waiter.result \in {"ready", "failed", "timeout", "rejected"})
    /\ [](waiter.requests <= MaxStatusRequests(waiter.maxWaitTime))

\* A call given 7000 ms has timed out after three polls that found the
\* deployment QUEUED or BUILDING.
WaitTerminatesWitness ==
    /\ waiter.pc = "done"
    /\ waiter.result = "timeout"
    /\ waiter.maxWaitTime = 7000
    /\ waiter.requests = 3

(***************************************************************************)
(* Stale deployments.                                                      *)
(***************************************************************************)
\* C20: once a publish call has ended with success, every deployment of the
\* project that no registry entry references has been requested to be
\* deleted.
StaleDeploymentsPruned ==
    \A s \in Slots :
        (tasks[s].kind = "publish" /\ tasks[s].outcome = "success") =>
            \A d \in HostDeployments :
                \E i \in 1..Len(Registry) : Registry[i].deploymentId = d

(***************************************************************************)
(* deleteUnusedDeployments.                                                *)
(***************************************************************************)
\* C21: deleteUnusedDeployments(activeDeploymentIds) requests the deletion
\* of no deployment whose id is in activeDeploymentIds, and, once the list
\* has come back, of every listed deployment whose id is not in it.
PruneOnlyStale ==
    /\ pruner.requested \cap pruner.activeDeploymentIds = {}
    /\ deleted \cap pruner.activeDeploymentIds = {}
    /\ pruner.pc \in {"deleting", "done"} =>
          \A d \in pruner.listed :
              d \notin pruner.activeDeploymentIds => d \in pruner.requested

\* A call that was given one of the three deployments of the project as
\* active has ended with the other two deleted.
PruneOnlyStaleWitness ==
    /\ pruner.pc = "done"
    /\ Cardinality(pruner.listed) = 3
    /\ Cardinality(pruner.activeDeploymentIds \cap pruner.listed) = 1
    /\ Cardinality(deleted) = 2

\* C22: deleteUnusedDeployments never ends with an error: when the list
\* request fails nothing is requested to be deleted and the call completes;
\* when the deletion of a deployment fails, the deletion of every other stale
\* deployment was requested all the same, and with all of them back the call
\* completes.
PruneNeverThrows ==
    /\ pruner.result \in {"none", "ok"}
    /\ pruner.pc = "done" => pruner.result = "ok"
    /\ pruner.listFailed =>
          (pruner.pc = "done" /\ pruner.requested = {} /\ deleted = {})
    /\ pruner.failed # {} =>
          /\ pruner.requested = pruner.listed \ pruner.activeDeploymentIds
          /\ pruner.pending = {} => pruner.pc = "done"
          /\ pruner.requested \ (pruner.failed \cup pruner.pending) \subseteq deleted

\* A call has ended with one deletion failed and another, requested with it,
\* done.
PruneNeverThrowsWitness ==
    /\ pruner.pc = "done"
    /\ pruner.result = "ok"
    /\ pruner.failed # {}
    /\ deleted # {}

(***************************************************************************)
(* getProjectDomains.                                                      *)
(***************************************************************************)
\* C23: the list getProjectDomains returns is never empty, holds
\* {project}.vercel.app exactly once, as its last element, and before it
\* only names of domains of the response that are verified or configured
\* and do not end in .vercel.app, every such domain being listed; for a
\* failed request the list is exactly [{project}.vercel.app].
DomainsDefaultLast ==
    domains.pc = "done" =>
        LET result == domains.result
            default == DefaultDomain(domains.projectName)
            ds == domains.response.domains
        IN  /\ Len(result) >= 1
            /\ result[Len(result)] = default
            /\ \A i \in 1..(Len(result) - 1) :
                  /\ result[i] # default
                  /\ \E j \in 1..Len(ds) :
                        /\ ds[j].name = result[i]
                        /\ ds[j].verified \/ ds[j].configured
                        /\ ~EndsWith(ds[j].name, ".vercel.app")
            /\ \A j \in 1..Len(ds) :
                  ((ds[j].verified \/ ds[j].configured)
                     /\ ~EndsWith(ds[j].name, ".vercel.app")) =>
                  \E i \in 1..(Len(result) - 1) : result[i] = ds[j].name
            /\ domains.response.status = "failed" => result = << default >>

\* A response that lists a verified custom domain, an unverified
\* unconfigured one among them too, and the project's own vercel.app domain
\* has been answered with the verified domain followed by the default.
DomainsDefaultLastWitness ==
    /\ domains.pc = "done"
    /\ domains.result = << "a.com", "proj.vercel.app" >>
    /\ Len(domains.response.domains) = 2
    /\ \E j \in 1..2 : /\ ~domains.response.domains[j].verified
                       /\ ~domains.response.domains[j].configured

(***************************************************************************)
(* Idempotent normalization.                                               *)
(***************************************************************************)
\* C24: for every text, generateSlug applied to generateSlug(text) returns
\* generateSlug(text); and generateSlug("My Great Note!") is my-great-note.
NormalizeIdempotent ==
    slugs.pc = "done" =>
        /\ slugs.twice = slugs.once
        /\ slugs.text = "My Great Note!" => slugs.once = "my-great-note"

\* "My Great Note!" has been normalized, to my-great-note both times.
NormalizeIdempotentWitness ==
    /\ slugs.pc = "done"
    /\ slugs.text = "My Great Note!"
    /\ slugs.once = "my-great-note"
    /\ slugs.twice = "my-great-note"

(***************************************************************************)
(* Linked notes in the manifest.                                           *)
(***************************************************************************)
\* C25: the manifest a publish call submits holds, for every registry entry
\* whose note exists and every note one hop from it,
\* {slug}/{normalized base name of the linked note}.html rendered from the
\* linked note, also when that normalized base name equals the slug.
LinkedPagesAllRendered ==
    \A s \in Submitting :
        tasks[s].kind = "publish" =>
            \A i \in 1..Len(Registry) :
                Registry[i].filePath \in vault =>
                    \A l \in LinkedOf(Registry[i]) :
                        HasPage(tasks[s].vercelFiles,
                                Registry[i].slug \o "/"
                                    \o generateSlug(Basename(l)) \o ".html",
                                l)

(***************************************************************************)
(* Assets are not notes.                                                   *)
(***************************************************************************)
\* C26: no base64 entry of a manifest a publish or unpublish call submits
\* is a markdown note (so the source of a note, within one hop of a root or
\* not, is never placed in a slug folder).
NoMarkdownAsset ==
    \A s \in Submitting :
        \A e \in EntriesOf(tasks[s].vercelFiles) :
            e.data.kind = "base64" => Extension(e.data.asset) # "md"

(***************************************************************************)
(* The registry under overlapping calls.                                   *)
(***************************************************************************)
\* C27: in every state reached by publish and unpublish calls, overlapping
\* or not, the registry holds at most one entry per document path, and only
\* entries of notes that were given to publishPageToVercel as the main file
\* and not unpublished since: never one of a linked note or of an asset.
RegistryOneEntryPerRoot ==
    /\ \A i, j \in 1..Len(Registry) :
          Registry[i].filePath = Registry[j].filePath => i = j
    /\ \A i \in 1..Len(Registry) :
          /\ Registry[i].filePath \in Roots
          /\ publishKind[Registry[i].filePath] # "none"
          /\ \A k \in 1..Len(Registry) :
                /\ Registry[i].filePath \notin LinkedOf(Registry[k])
                /\ Registry[i].filePath \notin AssetsOf(Registry[k])

\* Both roots are registered, and a publish of a note that was registered
\* already has started while another publish was suspended.
RegistryOneEntryPerRootWitness ==
    /\ Len(Registry) = 2
    /\ \E s \in Slots :
          /\ tasks[s].kind = "publish"
          /\ tasks[s].overlapped
          /\ tasks[s].prevSlug # NoSlug
          /\ tasks[s].pc = "loop"

(***************************************************************************)
(* Two publish calls that overlap.                                         *)
(***************************************************************************)
\* The calls of both slots are publish calls that overlapped and have ended
\* with success.
BothOverlappingPublishesDone ==
    \A s \in Slots :
        /\ tasks[s].kind = "publish"
        /\ tasks[s].overlapped
        /\ tasks[s].pc = "idle"
        /\ tasks[s].outcome = "success"

\* C28: once two overlapping publish calls have both completed, the
\* deployment whose id is stamped on the registry entries was made from a
\* manifest that holds {slug}/index.html of every registered page whose note
\* exists, whichever of the two deploy requests returned last.
OverlappingPublishesStampComplete ==
    BothOverlappingPublishesDone =>
        \A i \in 1..Len(Registry) :
            Registry[i].filePath \in vault =>
                \E s \in Slots :
                    /\ tasks[s].deployment = Registry[i].deploymentId
                    /\ HasPage(tasks[s].vercelFiles,
                               Registry[i].slug \o "/index.html",
                               Registry[i].filePath)

(***************************************************************************)
(* An unpublish during the loop of a publish.                              *)
(***************************************************************************)
\* C29: when page A was unpublished while a publish of another page was
\* suspended inside its loop over the registry, the manifest that publish
\* submits afterwards (A not published again, no registered page sharing its
\* slug) has no entry under A's slug folder.
UnpublishedFolderNotResubmitted ==
    \A s \in Submitting :
        tasks[s].kind = "publish" =>
            \A f \in tasks[s].removedInLoop :
                (/\ f # tasks[s].file
                 /\ removedSlug[f] # NoSlug
                 /\ \A i \in 1..Len(Registry) : Registry[i].slug # removedSlug[f]) =>
                \A path \in PathsOf(tasks[s].vercelFiles) :
                    ~Under(path, removedSlug[f])

(***************************************************************************)
(* Publish all notes.                                                      *)
(***************************************************************************)
\* C30: publishAllNotesToVercel leaves the registry as it was, and the
\* manifest it submits holds {slug}/index.html, rendered from the note, for
\* every registry entry whose note exists, so that the registered pages are
\* still served at their recorded slugs once the call has succeeded.
PublishAllKeepsRegisteredPages ==
    \A s \in Slots :
        (/\ tasks[s].kind = "publishAll"
         /\ tasks[s].pc = "deployAll" \/ tasks[s].outcome = "success") =>
            /\ Registry = tasks[s].pagesBefore
            /\ \A i \in 1..Len(Registry) :
                  Registry[i].filePath \in vault =>
                      HasPage(tasks[s].vercelFiles,
                              Registry[i].slug \o "/index.html",
                              Registry[i].filePath)

====
